---- MODULE Spec2Model ----
(***************************************************************************)
(* Stock Movement & Reconciliation Engine.                                 *)
(*                                                                         *)
(* The database is one record of tables (stock, staging_tags,              *)
(* stock_movements, audits, audit_items, parts).  `db` is the committed    *)
(* database; `tx` is the working copy of the one connection that holds     *)
(* SQLite's write lock (`lock`).  Every request handler runs on its own    *)
(* connection (database.get_db), so a handler's first INSERT/UPDATE/DELETE *)
(* opens a transaction and takes the write lock, which it keeps until its  *)
(* commit or rollback; SELECTs of the other connections keep reading the   *)
(* committed database.  NULL is written 0 (ids start at 1) and a NULL      *)
(* actual_qty is written -1.                                               *)
(***************************************************************************)
EXTENDS Integers, Sequences, FiniteSets, TLC

VARIABLES
    db,          \* the committed database
    tx,          \* the working copy of the connection holding the write lock
    lock,        \* the process whose transaction is open, or NULL
    now,         \* datetime('now'), in seconds
    pc,          \* where each execute_movement call stands
    req,         \* its MovementRequest
    idx,         \* the line of req.items it is at
    sup,         \* the supplier resolved for that line
    todo,        \* affected_part_ids not handled yet
    curPart,     \* the part of the running post-commit side effects
    lowQty,      \* the wh_qty _check_low_stock read
    validation,  \* the ValidationResult of the call
    resp,        \* the MovementExecuteResponse, once returned
    sideFail,    \* a side effect of the call failed (and was logged)
    expected,    \* stock, tags and log as they would be without the call
    last,        \* the last call of another handler, with what it returned
    calls        \* number of handler calls so far

vars == <<db, tx, lock, now, pc, req, idx, sup, todo, curPart, lowQty,
          validation, resp, sideFail, expected, last, calls>>

\* ------------------------------------------------------------------ bounds

MaxQty == 2
MaxLines == 2
MaxCount == 3
MaxCalls == 2
MaxAuditCalls == 3
MaxAudits == 1
MaxMonths == 3

\* ----------------------------------------------------------- program data

NULL == 0
NoQty == 0 - 1

Procs == {1, 2}
PartIds == {1, 2}
MissingPart == Cardinality(PartIds) + 1
Suppliers == {1, 2}
LocationTypes == {"warehouse", "pulled", "truck", "job"}
LocationIds == {1}

MOVEMENT_RULES ==
    (<<"warehouse", "pulled">> :> [type |-> "transfer", photo_required |-> FALSE]) @@
    (<<"pulled", "truck">> :> [type |-> "transfer", photo_required |-> FALSE]) @@
    (<<"warehouse", "truck">> :> [type |-> "transfer", photo_required |-> FALSE]) @@
    (<<"truck", "job">> :> [type |-> "consume", photo_required |-> TRUE]) @@
    (<<"job", "truck">> :> [type |-> "return", photo_required |-> TRUE]) @@
    (<<"truck", "warehouse">> :> [type |-> "return", photo_required |-> FALSE]) @@
    (<<"pulled", "warehouse">> :> [type |-> "return", photo_required |-> FALSE])

\* ------------------------------------------------------------ set helpers

RECURSIVE SumQty(_)
SumQty(S) ==
    IF S = {} THEN 0
    ELSE LET r == CHOOSE x \in S : TRUE IN r.qty + SumQty(S \ {r})

RECURSIVE SeqSumQty(_)
SeqSumQty(s) == IF s = <<>> THEN 0 ELSE Head(s).qty + SeqSumQty(Tail(s))

RECURSIVE Concat(_)
Concat(ss) == IF ss = <<>> THEN <<>> ELSE Head(ss) \o Concat(Tail(ss))

Max(a, b) == IF a >= b THEN a ELSE b
Min(a, b) == IF a <= b THEN a ELSE b

\* --------------------------------------------------------------- queries

\* SELECT * FROM parts WHERE id = ?  fetchone(): <<row>>, or <<>> for None
_get_part(d, part_id) ==
    IF part_id \in DOMAIN d.parts THEN <<d.parts[part_id]>> ELSE <<>>

StockAt(d, part_id, location_type, location_id) ==
    {r \in d.stock : /\ r.part_id = part_id
                     /\ r.location_type = location_type
                     /\ r.location_id = location_id}

\* _get_available_qty that reads the largest supplier row instead of the sum
_get_available_qty_one_row(d, part_id, location_type, location_id) ==
    LET rows == StockAt(d, part_id, location_type, location_id)
    IN  IF rows = {} THEN 0
        ELSE (CHOOSE r \in rows : \A o \in rows : r.qty >= o.qty).qty

\* SELECT COALESCE(SUM(qty), 0) FROM stock WHERE part, location (all suppliers)
_get_available_qty(d, part_id, location_type, location_id) ==
    SumQty(StockAt(d, part_id, location_type, location_id))

\* SUM(qty) of a part over every warehouse row, whatever the location id
WarehouseQty(d, part_id) ==
    SumQty({r \in d.stock : r.part_id = part_id /\ r.location_type = "warehouse"})

\* ------------------------------------------------------------ validation

ValidateLine(d, r, item) ==
    LET found == _get_part(d, item.part_id)
        part == found[1]
        available == _get_available_qty(d, item.part_id,
                         r.from_location_type, r.from_location_id)
        dest_qty == _get_available_qty(d, item.part_id,
                         r.to_location_type, r.to_location_id)
    IN  IF found = <<>>
        THEN [errors |-> <<[part_id |-> item.part_id, field |-> "",
                            requested |-> 0, available |-> 0]>>,
              warnings |-> <<>>]
        ELSE [errors |->
                 IF item.qty > available
                 THEN <<[part_id |-> item.part_id, field |-> "qty",
                         requested |-> item.qty, available |-> available]>>
                 ELSE <<>>,
              warnings |->
                 (IF available - item.qty = 0
                  THEN <<[part_id |-> item.part_id, kind |-> "source_zero"]>>
                  ELSE <<>>) \o
                 (IF part.max_stock_level > 0
                     /\ dest_qty + item.qty > part.max_stock_level
                  THEN <<[part_id |-> item.part_id, kind |-> "exceeds_max"]>>
                  ELSE <<>>)]

\* validate_movement whose path check does not return early
validate_movement_no_return(d, r) ==
    LET per == [i \in 1..Len(r.items) |-> ValidateLine(d, r, r.items[i])]
        errs == Concat([i \in 1..Len(r.items) |-> per[i].errors])
        illegal == <<r.from_location_type, r.to_location_type>>
                       \notin DOMAIN MOVEMENT_RULES
        all == (IF illegal
                THEN <<[part_id |-> NULL, field |-> "",
                        requested |-> 0, available |-> 0]>>
                ELSE <<>>) \o errs
    IN  [valid |-> Len(all) = 0,
         errors |-> all,
         warnings |-> Concat([i \in 1..Len(r.items) |-> per[i].warnings])]

validate_movement(d, r) ==
    IF <<r.from_location_type, r.to_location_type>> \notin DOMAIN MOVEMENT_RULES
    THEN [valid |-> FALSE,
          errors |-> <<[part_id |-> NULL, field |-> "",
                        requested |-> 0, available |-> 0]>>,
          warnings |-> <<>>]
    ELSE LET per == [i \in 1..Len(r.items) |-> ValidateLine(d, r, r.items[i])]
             errs == Concat([i \in 1..Len(r.items) |-> per[i].errors])
         IN  [valid |-> Len(errs) = 0,
              errors |-> errs,
              warnings |-> Concat([i \in 1..Len(r.items) |-> per[i].warnings])]

\* --------------------------------------------------- supplier resolution

\* Cascade lookup part -> type -> style -> category; NULL when no scope of the
\* part's ancestry has a preference.
RECURSIVE FirstPreference(_, _)
FirstPreference(d, scopes) ==
    IF scopes = <<>> THEN NULL
    ELSE IF Head(scopes) \in DOMAIN d.supplier_preferences
         THEN d.supplier_preferences[Head(scopes)]
         ELSE FirstPreference(d, Tail(scopes))

_get_preferred_supplier(d, part_id) ==
    LET found == _get_part(d, part_id)
        part == found[1]
    IN  IF found = <<>> THEN NULL
        ELSE FirstPreference(d,
                 <<<<"part", part_id>>>> \o
                 (IF part.type_id # NULL THEN <<<<"type", part.type_id>>>> ELSE <<>>) \o
                 (IF part.style_id # NULL THEN <<<<"style", part.style_id>>>> ELSE <<>>) \o
                 (IF part.category_id # NULL
                  THEN <<<<"category", part.category_id>>>> ELSE <<>>))

\* The rows a "... ORDER BY updated_at ASC LIMIT 1" may return: SQLite does not
\* order rows with equal updated_at, so every oldest row is a possible answer.
OldestRows(S) ==
    {r \in S : r.qty > 0 /\ \A o \in S : o.qty > 0 => r.updated_at <= o.updated_at}

\* _resolve_supplier that takes the preferred supplier whenever it has stock
\* at the source, however little
_resolve_supplier_any_qty(d, item, from_location_type, from_location_id) ==
    LET rows == StockAt(d, item.part_id, from_location_type, from_location_id)
        preferred == _get_preferred_supplier(d, item.part_id)
        prefRows == {r \in rows : r.supplier_id = preferred /\ r.qty > 0}
        viaPreferred ==
            IF preferred # NULL
            THEN {<<preferred, "preferred">> : r \in prefRows}
            ELSE {}
        viaFifo ==
            IF preferred # NULL /\ prefRows # {} THEN {}
            ELSE IF OldestRows(rows) = {} THEN {<<NULL, "none">>}
            ELSE {<<r.supplier_id, "fifo">> : r \in OldestRows(rows)}
    IN  IF item.supplier_id # NULL
        THEN {<<item.supplier_id, "explicit">>}
        ELSE viaPreferred \cup viaFifo

\* The (supplier_id, source label) pairs _resolve_supplier may return.
_resolve_supplier(d, item, from_location_type, from_location_id) ==
    LET rows == StockAt(d, item.part_id, from_location_type, from_location_id)
        preferred == _get_preferred_supplier(d, item.part_id)
        prefRows == {r \in rows : r.supplier_id = preferred /\ r.qty > 0}
        viaPreferred ==
            IF preferred # NULL
            THEN {<<preferred, "preferred">> : r \in {x \in prefRows : x.qty >= item.qty}}
            ELSE {}
        \* fetchone() of the preferred supplier's rows: any of them (there is one
        \* unless the key is duplicated); the FIFO step runs when that row is short
        fallsThrough ==
            \/ preferred = NULL
            \/ prefRows = {}
            \/ \E x \in prefRows : x.qty < item.qty
        viaFifo ==
            IF ~fallsThrough THEN {}
            ELSE IF OldestRows(rows) = {} THEN {<<NULL, "none">>}
            ELSE {<<r.supplier_id, "fifo">> : r \in OldestRows(rows)}
    IN  IF item.supplier_id # NULL
        THEN {<<item.supplier_id, "explicit">>}
        ELSE viaPreferred \cup viaFifo

\* ------------------------------------------------------------------ preview

\* The answers _resolve_supplier may give for the lines of a request, line by
\* line.
RECURSIVE ResolutionsUpTo(_, _, _)
ResolutionsUpTo(d, r, n) ==
    IF n = 0 THEN {<<>>}
    ELSE {Append(c, x) :
              c \in ResolutionsUpTo(d, r, n - 1),
              x \in _resolve_supplier(d, r.items[n], r.from_location_type,
                                      r.from_location_id)}

ResolutionsOf(d, r) == ResolutionsUpTo(d, r, Len(r.items))

MovementPreviewLine(d, r, item, choice) ==
    LET source_qty == _get_available_qty(d, item.part_id,
                          r.from_location_type, r.from_location_id)
        dest_qty == _get_available_qty(d, item.part_id,
                        r.to_location_type, r.to_location_id)
    IN  [part_id |-> item.part_id, qty |-> item.qty,
         supplier_id |-> choice[1], supplier_source |-> choice[2],
         source_before |-> source_qty, source_after |-> source_qty - item.qty,
         dest_before |-> dest_qty, dest_after |-> dest_qty + item.qty]

\* calculate_preview that asks for a photo whenever some path of the same kind
\* asks for one
calculate_preview_by_kind(d, r, choices) ==
    LET path == <<r.from_location_type, r.to_location_type>>
        legal == path \in DOMAIN MOVEMENT_RULES
        lines == Concat([i \in 1..Len(r.items) |->
                     IF _get_part(d, r.items[i].part_id) = <<>> THEN <<>>
                     ELSE <<MovementPreviewLine(d, r, r.items[i], choices[i])>>])
    IN  [lines |-> lines,
         total_qty |-> SeqSumQty(lines),
         movement_type |-> IF legal THEN MOVEMENT_RULES[path].type ELSE "transfer",
         photo_required |->
             /\ legal
             /\ \E q \in DOMAIN MOVEMENT_RULES :
                   /\ MOVEMENT_RULES[q].type = MOVEMENT_RULES[path].type
                   /\ MOVEMENT_RULES[q].photo_required,
         warnings |-> Concat([i \in 1..Len(lines) |->
                         IF lines[i].source_after = 0
                         THEN <<[part_id |-> lines[i].part_id, kind |-> "source_zero"]>>
                         ELSE <<>>])]

\* calculate_preview, with `choices` the answers of _resolve_supplier for the
\* lines; a line whose part does not exist is left out.
calculate_preview(d, r, choices) ==
    LET path == <<r.from_location_type, r.to_location_type>>
        legal == path \in DOMAIN MOVEMENT_RULES
        lines == Concat([i \in 1..Len(r.items) |->
                     IF _get_part(d, r.items[i].part_id) = <<>> THEN <<>>
                     ELSE <<MovementPreviewLine(d, r, r.items[i], choices[i])>>])
    IN  [lines |-> lines,
         total_qty |-> SeqSumQty(lines),
         movement_type |-> IF legal THEN MOVEMENT_RULES[path].type ELSE "transfer",
         photo_required |-> legal /\ MOVEMENT_RULES[path].photo_required,
         warnings |-> Concat([i \in 1..Len(lines) |->
                         IF lines[i].source_after = 0
                         THEN <<[part_id |-> lines[i].part_id, kind |-> "source_zero"]>>
                         ELSE <<>>])]

\* -------------------------------------------------------- stock operations

\* DELETE FROM stock WHERE part_id = ? AND location_type = ? AND location_id = ?
\*   AND qty = 0
DeleteZeroRows(stock, part_id, location_type, location_id) ==
    {r \in stock : ~(/\ r.part_id = part_id
                     /\ r.location_type = location_type
                     /\ r.location_id = location_id
                     /\ r.qty = 0)}

\* The possible results of "SELECT ... WHERE qty > 0 ORDER BY updated_at ASC":
\* every sequence of the rows that is sorted by updated_at.
PooledOrders(d, part_id, location_type, location_id) ==
    LET rows == {r \in StockAt(d, part_id, location_type, location_id) : r.qty > 0}
        n == Cardinality(rows)
    IN  {s \in [1..n -> rows] :
            /\ \A i, j \in 1..n : i # j => s[i] # s[j]
            /\ \A i, j \in 1..n : i < j => s[i].updated_at <= s[j].updated_at}

\* The loop of _deduct_stock_pooled over the selected rows.
RECURSIVE PooledTake(_, _, _, _)
PooledTake(stock, rows, remaining, t) ==
    IF rows = <<>> \/ remaining <= 0 THEN stock
    ELSE LET row == Head(rows)
             take == Min(row.qty, remaining)
         IN  PooledTake(
                 {IF r.id = row.id
                  THEN [r EXCEPT !.qty = r.qty - take, !.updated_at = t]
                  ELSE r : r \in stock},
                 Tail(rows), remaining - take, t)

_deduct_stock_pooled(d, part_id, location_type, location_id, qty_needed, t, rows) ==
    IF SeqSumQty(rows) < qty_needed
    THEN [ok |-> FALSE, db |-> d]
    ELSE [ok |-> TRUE,
          db |-> [d EXCEPT !.stock =
                     DeleteZeroRows(PooledTake(d.stock, rows, qty_needed, t),
                                    part_id, location_type, location_id)]]

\* DeductGuard without the "AND qty >= ?" of the UPDATE
DeductUnguarded(r, qty) == TRUE

\* The guard of the conditional UPDATE: WHERE ... AND qty >= ?
DeductGuard(r, qty) == r.qty >= qty

\* `rows` is the SELECT result the pooled fallback would read.
_deduct_stock(d, part_id, location_type, location_id, qty, supplier_id, t, rows) ==
    LET hit == {r \in StockAt(d, part_id, location_type, location_id) :
                   r.supplier_id = supplier_id /\ DeductGuard(r, qty)}
    IN  IF hit # {}
        THEN [ok |-> TRUE,
              db |-> [d EXCEPT !.stock =
                         DeleteZeroRows(
                             {IF r \in hit
                              THEN [r EXCEPT !.qty = r.qty - qty, !.updated_at = t]
                              ELSE r : r \in d.stock},
                             part_id, location_type, location_id)]]
        ELSE IF supplier_id # NULL
             THEN _deduct_stock_pooled(d, part_id, location_type, location_id,
                                       qty, t, rows)
             ELSE [ok |-> FALSE, db |-> d]

\* UPSERT: UPDATE the rows of the key, INSERT one when the UPDATE hit none.
_add_stock(d, part_id, location_type, location_id, qty, supplier_id, t) ==
    LET hit == {r \in StockAt(d, part_id, location_type, location_id) :
                   r.supplier_id = supplier_id}
    IN  IF hit # {}
        THEN [stock_id |-> (CHOOSE r \in hit : \A o \in hit : r.id <= o.id).id,
              db |-> [d EXCEPT !.stock =
                         {IF r \in hit
                          THEN [r EXCEPT !.qty = r.qty + qty, !.updated_at = t]
                          ELSE r : r \in d.stock}]]
        ELSE [stock_id |-> d.stock_seq + 1,
              db |-> [d EXCEPT
                         !.stock_seq = d.stock_seq + 1,
                         !.stock = d.stock \cup
                             {[id |-> d.stock_seq + 1, part_id |-> part_id,
                               location_type |-> location_type,
                               location_id |-> location_id,
                               supplier_id |-> supplier_id, qty |-> qty,
                               updated_at |-> t, last_counted |-> NULL]}]]

\* ------------------------------------------------------------ staging tags

\* INSERT ... ON CONFLICT(stock_id) DO UPDATE
_tag_staging(d, stock_id, destination_type, destination_id) ==
    [d EXCEPT !.staging_tags =
        {g \in d.staging_tags : g.stock_id # stock_id} \cup
        {[stock_id |-> stock_id, destination_type |-> destination_type,
          destination_id |-> destination_id]}]

_clear_staging_tag_for_part(d, part_id, location_id, supplier_id) ==
    LET ids == {r.id : r \in {x \in StockAt(d, part_id, "pulled", location_id) :
                                 x.supplier_id = supplier_id}}
    IN  [d EXCEPT !.staging_tags = {g \in d.staging_tags : g.stock_id \notin ids}]

\* ------------------------------------------------------------ movement log

\* _log_movement that also re-stamps the part's earlier entries with the
\* prices of the new entry
_log_movement_restamped(d, entry) ==
    [d EXCEPT !.stock_movements =
        Append([i \in 1..Len(d.stock_movements) |->
                   IF d.stock_movements[i].part_id = entry.part_id
                   THEN [d.stock_movements[i] EXCEPT
                            !.unit_cost_at_move = entry.unit_cost_at_move,
                            !.unit_sell_at_move = entry.unit_sell_at_move]
                   ELSE d.stock_movements[i]],
               entry)]

\* INSERT INTO stock_movements: the entry is appended, nothing else is touched.
_log_movement(d, entry) ==
    [d EXCEPT !.stock_movements = Append(d.stock_movements, entry)]

LogEntry(part_id, qty, from_type, from_id, to_type, to_id, supplier_id, movement_type, audit_ref, cost, sell, t) ==
    [part_id |-> part_id, qty |-> qty,
     from_location_type |-> from_type, from_location_id |-> from_id,
     to_location_type |-> to_type, to_location_id |-> to_id,
     supplier_id |-> supplier_id, movement_type |-> movement_type,
     audit_ref |-> audit_ref,
     unit_cost_at_move |-> cost, unit_sell_at_move |-> sell, created_at |-> t]

\* ------------------------------------------------------ one line of a batch

\* supplier_id is the supplier _resolve_supplier returned for the line and rows
\* the SELECT result of the pooled fallback.  ok = FALSE stands for the
\* ValueError the line raises.
_execute_single_line(d, item, r, movement_type, t, supplier_id, rows) ==
    LET found == _get_part(d, item.part_id)
        part == found[1]
        deducted == _deduct_stock(d, item.part_id, r.from_location_type,
                        r.from_location_id, item.qty, supplier_id, t, rows)
        added == _add_stock(deducted.db, item.part_id, r.to_location_type,
                     r.to_location_id, item.qty, supplier_id, t)
        tagged == IF r.to_location_type = "pulled" /\ r.destination_type # ""
                  THEN _tag_staging(added.db, added.stock_id,
                           r.destination_type, r.destination_id)
                  ELSE added.db
        cleared == IF r.from_location_type = "pulled"
                   THEN _clear_staging_tag_for_part(tagged, item.part_id,
                            r.from_location_id, supplier_id)
                   ELSE tagged
    IN  IF found = <<>> THEN [ok |-> FALSE, db |-> d]
        ELSE IF ~deducted.ok THEN [ok |-> FALSE, db |-> d]
        ELSE [ok |-> TRUE,
              db |-> _log_movement(cleared,
                         LogEntry(item.part_id, item.qty,
                             r.from_location_type, r.from_location_id,
                             r.to_location_type, r.to_location_id,
                             supplier_id, movement_type, NULL,
                             part.company_cost_price, part.company_sell_price, t))]

\* ------------------------------------------------- post-commit side effects

Days30 == 2592000
Days90 == 7776000
NotAtRisk == 999

\* Python's int(): truncation toward zero of a / b, for b > 0.
IntDiv(a, b) == IF a >= 0 THEN a \div b ELSE 0 - ((0 - a) \div b)

\* SUM(qty) of the consume/transfer entries to a truck or a job within the window
Consumed(d, part_id, t, window) ==
    LET n == Len(d.stock_movements)
        hit == {i \in 1..n :
                   LET e == d.stock_movements[i]
                   IN  /\ e.part_id = part_id
                       /\ e.movement_type \in {"consume", "transfer"}
                       /\ e.to_location_type \in {"job", "truck"}
                       /\ e.created_at >= t - window}
    IN  SumQty({[id |-> i, qty |-> d.stock_movements[i].qty] : i \in hit})

\* Forecast whose suggested order is added to the stored one, not recomputed
ForecastIncremental(d, part_id, t) ==
    LET part == d.parts[part_id]
        consumed_30 == Consumed(d, part_id, t, Days30)
        consumed_90 == Consumed(d, part_id, t, Days90)
        wh_qty == WarehouseQty(d, part_id)
        min_level == part.min_stock_level
        target_level == part.target_stock_level
    IN  [consumed_30 |-> consumed_30,
         consumed_90 |-> consumed_90,
         days_until_low |->
             IF consumed_30 > 0
             THEN Max(0 - 1, IntDiv((wh_qty - min_level) * 30, consumed_30))
             ELSE IF wh_qty <= min_level THEN 0 - 1 ELSE NotAtRisk,
         suggested_order |->
             part.forecast.suggested_order
                 + (IF wh_qty < target_level THEN target_level - wh_qty ELSE 0),
         reorder_point |-> min_level + IntDiv(consumed_30 * 7, 30),
         target_qty |-> target_level]

\* The forecast columns of a part.  adu_30 and adu_90 are kept as the consumed
\* quantities they are computed from (adu_30 = consumed_30 / 30.0).
Forecast(d, part_id, t) ==
    LET part == d.parts[part_id]
        consumed_30 == Consumed(d, part_id, t, Days30)
        consumed_90 == Consumed(d, part_id, t, Days90)
        wh_qty == WarehouseQty(d, part_id)
        min_level == part.min_stock_level
        target_level == part.target_stock_level
    IN  [consumed_30 |-> consumed_30,
         consumed_90 |-> consumed_90,
         days_until_low |->
             IF consumed_30 > 0
             THEN Max(0 - 1, IntDiv((wh_qty - min_level) * 30, consumed_30))
             ELSE IF wh_qty <= min_level THEN 0 - 1 ELSE NotAtRisk,
         suggested_order |->
             IF wh_qty < target_level THEN target_level - wh_qty ELSE 0,
         reorder_point |-> min_level + IntDiv(consumed_30 * 7, 30),
         target_qty |-> target_level]

\* UPDATE parts SET forecast_* = ... WHERE id = ?  (no row: nothing changes)
_update_forecast(d, part_id, t) ==
    IF _get_part(d, part_id) = <<>> THEN d
    ELSE [d EXCEPT !.parts[part_id].forecast = Forecast(d, part_id, t)]

\* The SELECT 1 FROM audits JOIN audit_items ... of _check_low_stock
HasOpenSpotCheck(d, part_id) ==
    \E i \in 1..Len(d.audit_items) :
        /\ d.audit_items[i].part_id = part_id
        /\ d.audits[d.audit_items[i].audit_id].audit_type = "spot_check"
        /\ d.audits[d.audit_items[i].audit_id].status \in {"in_progress", "paused"}

\* LowStockWanted without the look-up of the open spot checks
LowStockWantedUnchecked(d, part_id) ==
    LET found == _get_part(d, part_id)
        part == found[1]
    IN  /\ found # <<>>
        /\ part.target_stock_level # 0
        /\ part.min_stock_level > 0
        /\ WarehouseQty(d, part_id) < part.min_stock_level

\* The reads of _check_low_stock: TRUE when it goes on to create a spot check.
LowStockWanted(d, part_id) ==
    LET found == _get_part(d, part_id)
        part == found[1]
    IN  /\ found # <<>>
        /\ part.target_stock_level # 0
        /\ part.min_stock_level > 0
        /\ WarehouseQty(d, part_id) < part.min_stock_level
        /\ ~HasOpenSpotCheck(d, part_id)

\* The values the columns audits.status and audit_items.result take when an
\* INSERT names neither: a session starts in_progress, an item pending.
AuditStatusDefault == "in_progress"
ItemResultDefault == "pending"

NewAudit(audit_type, location_type, location_id, total_items) ==
    [audit_type |-> audit_type, location_type |-> location_type,
     location_id |-> location_id, status |-> AuditStatusDefault,
     total_items |-> total_items, matched_items |-> 0,
     discrepancy_count |-> 0, skipped_count |-> 0]

NewItem(audit_id, part_id, expected_qty) ==
    [audit_id |-> audit_id, part_id |-> part_id, expected_qty |-> expected_qty,
     actual_qty |-> NoQty, result |-> ItemResultDefault]

\* The two INSERTs of _check_low_stock; wh_qty is the quantity it read before.
CreateSpotCheck(d, part_id, wh_qty) ==
    [d EXCEPT
        !.audits = Append(d.audits, NewAudit("spot_check", "warehouse", 1, 1)),
        !.audit_items = Append(d.audit_items,
                            NewItem(Len(d.audits) + 1, part_id, wh_qty))]

\* ----------------------------------------------------------- receive_stock

RECURSIVE RefreshForecasts(_, _, _)
RefreshForecasts(d, part_ids, t) ==
    IF part_ids = {} THEN d
    ELSE LET part_id == CHOOSE x \in part_ids : TRUE
         IN  RefreshForecasts(_update_forecast(d, part_id, t), part_ids \ {part_id}, t)

\* The loop of receive_stock up to its commit; ok = FALSE is the ValueError of
\* a missing part, after which the caller rolls back.
RECURSIVE ReceiveItems(_, _, _)
ReceiveItems(d, items, t) ==
    IF items = <<>> THEN [ok |-> TRUE, db |-> d]
    ELSE LET item == Head(items)
             found == _get_part(d, item.part_id)
             part == found[1]
             added == _add_stock(d, item.part_id, "warehouse", 1, item.qty,
                                 item.supplier_id, t)
         IN  IF found = <<>> THEN [ok |-> FALSE, db |-> d]
             ELSE ReceiveItems(
                      _log_movement(added.db,
                          LogEntry(item.part_id, item.qty, "", NULL, "warehouse", 1,
                              item.supplier_id, "receive", NULL,
                              part.company_cost_price, part.company_sell_price, t)),
                      Tail(items), t)

\* receive_stock as a whole: all items, commit, then the forecast refresh of
\* every part of the request; on a failure the rollback leaves d.
receive_stock(d, items, t) ==
    LET done == ReceiveItems(d, items, t)
    IN  IF done.ok
        THEN [ok |-> TRUE,
              db |-> RefreshForecasts(done.db,
                         {items[i].part_id : i \in 1..Len(items)}, t)]
        ELSE [ok |-> FALSE, db |-> d]

\* --------------------------------------------------------- audit sessions

ItemIds(d, audit_id) ==
    {i \in 1..Len(d.audit_items) : d.audit_items[i].audit_id = audit_id}

CountResult(d, audit_id, result) ==
    Cardinality({i \in ItemIds(d, audit_id) : d.audit_items[i].result = result})

\* AuditRepo.count_by_result (every audit of the model has at least one item,
\* so no SUM is NULL)
count_by_result(d, audit_id) ==
    [total_items |-> Cardinality(ItemIds(d, audit_id)),
     counted |-> Cardinality({i \in ItemIds(d, audit_id) :
                                 d.audit_items[i].result # "pending"}),
     matched |-> CountResult(d, audit_id, "match"),
     discrepancies |-> CountResult(d, audit_id, "discrepancy"),
     skipped |-> CountResult(d, audit_id, "skipped"),
     pending |-> CountResult(d, audit_id, "pending")]

update_summary_counts(d, audit_id) ==
    LET progress == count_by_result(d, audit_id)
    IN  IF audit_id \notin 1..Len(d.audits) THEN d
        ELSE [d EXCEPT !.audits[audit_id] =
                 [@ EXCEPT !.total_items = progress.total_items,
                           !.matched_items = progress.matched,
                           !.discrepancy_count = progress.discrepancies,
                           !.skipped_count = progress.skipped]]

\* start_audit for a spot check on an explicit, duplicate-free part list:
\* the expected quantity of each item is the ledger's sum at the location now.
start_audit(d, location_type, location_id, part_ids) ==
    LET audit_id == Len(d.audits) + 1
        items == [i \in 1..Len(part_ids) |->
                     NewItem(audit_id, part_ids[i],
                         _get_available_qty(d, part_ids[i], location_type, location_id))]
    IN  [d EXCEPT
            !.audits = Append(d.audits,
                           NewAudit("spot_check", location_type, location_id,
                                    Len(items))),
            !.audit_items = d.audit_items \o items]

\* AuditItemRepo.record_count: UPDATE audit_items SET ... WHERE id = ?
ItemRecordCount(d, item_id, actual_qty, result) ==
    IF item_id \in 1..Len(d.audit_items)
    THEN [ok |-> TRUE,
          db |-> [d EXCEPT !.audit_items[item_id] =
                     [@ EXCEPT !.actual_qty = actual_qty, !.result = result]]]
    ELSE [ok |-> FALSE, db |-> d]

\* AuditService.record_count
record_count(d, audit_id, item_id, actual_qty, result) ==
    LET recorded == ItemRecordCount(d, item_id, actual_qty, result)
    IN  IF recorded.ok
        THEN [ok |-> TRUE, db |-> update_summary_counts(recorded.db, audit_id)]
        ELSE recorded

\* complete_audit: the database after it and the progress of its summary
complete_audit(d, audit_id) ==
    LET counted == update_summary_counts(d, audit_id)
        after == IF audit_id \in 1..Len(d.audits)
                 THEN [counted EXCEPT !.audits[audit_id].status = "completed"]
                 ELSE counted
    IN  [db |-> after, progress |-> count_by_result(after, audit_id)]

\* The discrepancy items of an audit in the order get_items_for_audit returns
\* them (parts are named in the order of their ids; then by item id).
RECURSIVE SortItems(_, _)
SortItems(d, ids) ==
    IF ids = {} THEN <<>>
    ELSE LET first == CHOOSE i \in ids : \A j \in ids :
                          \/ d.audit_items[i].part_id < d.audit_items[j].part_id
                          \/ /\ d.audit_items[i].part_id = d.audit_items[j].part_id
                             /\ i <= j
         IN  <<first>> \o SortItems(d, ids \ {first})

DiscrepancyItems(d, audit_id) ==
    SortItems(d, {i \in ItemIds(d, audit_id) :
                     d.audit_items[i].result = "discrepancy"})

\* INSERT INTO stock (part_id, location_type, location_id, qty, updated_at)
\* ... ON CONFLICT(part_id, location_type, location_id, supplier_id) DO UPDATE:
\* the inserted supplier_id is NULL and NULLs never conflict in a UNIQUE index,
\* so the INSERT always adds a row.
AdjustFoundExtra(d, part_id, location_type, location_id, diff, t) ==
    [d EXCEPT
        !.stock_seq = d.stock_seq + 1,
        !.stock = d.stock \cup
            {[id |-> d.stock_seq + 1, part_id |-> part_id,
              location_type |-> location_type, location_id |-> location_id,
              supplier_id |-> NULL, qty |-> diff,
              updated_at |-> t, last_counted |-> NULL]}]

\* UPDATE stock SET qty = MAX(0, qty + ?) WHERE part_id = ? AND location_type = ?
\*   AND location_id = ?   (every supplier row of the part at the location)
AdjustMissing(d, part_id, location_type, location_id, diff, t) ==
    [d EXCEPT !.stock =
        {IF r \in StockAt(d, part_id, location_type, location_id)
         THEN [r EXCEPT !.qty = Max(0, r.qty + diff), !.updated_at = t]
         ELSE r : r \in d.stock}]

\* The loop of apply_adjustments over the discrepancy items.
RECURSIVE AdjustItems(_, _, _, _, _)
AdjustItems(d, audit_id, ids, t, count) ==
    IF ids = <<>> THEN [count |-> count, db |-> d]
    ELSE LET item == d.audit_items[Head(ids)]
             audit == d.audits[audit_id]
             diff == item.actual_qty - item.expected_qty
             changed ==
                 IF diff > 0
                 THEN AdjustFoundExtra(d, item.part_id, audit.location_type,
                                       audit.location_id, diff, t)
                 ELSE AdjustMissing(d, item.part_id, audit.location_type,
                                    audit.location_id, diff, t)
             entry ==
                 LogEntry(item.part_id, IF diff > 0 THEN diff ELSE 0 - diff,
                     IF diff < 0 THEN audit.location_type ELSE "",
                     IF diff < 0 THEN audit.location_id ELSE NULL,
                     IF diff > 0 THEN audit.location_type ELSE "",
                     IF diff > 0 THEN audit.location_id ELSE NULL,
                     NULL, "adjust", audit_id, NULL, NULL, t)
         IN  IF item.actual_qty = NoQty \/ diff = 0
             THEN AdjustItems(d, audit_id, Tail(ids), t, count)
             ELSE AdjustItems(_log_movement(changed, entry), audit_id,
                              Tail(ids), t, count + 1)

\* UPDATE stock SET last_counted = datetime('now') WHERE location ... AND part_id
\*   IN (SELECT part_id FROM audit_items WHERE audit_id = ?)
MarkCounted(d, audit_id, t) ==
    LET audit == d.audits[audit_id]
        counted == {d.audit_items[i].part_id : i \in ItemIds(d, audit_id)}
    IN  [d EXCEPT !.stock =
            {IF /\ r.location_type = audit.location_type
                /\ r.location_id = audit.location_id
                /\ r.part_id \in counted
             THEN [r EXCEPT !.last_counted = t]
             ELSE r : r \in d.stock}]

\* apply_adjustments as a whole: the adjustments, the commit and the forecast
\* refresh of the parts of the discrepancy items.
apply_adjustments(d, audit_id, t) ==
    LET ids == DiscrepancyItems(d, audit_id)
        adjusted == AdjustItems(d, audit_id, ids, t, 0)
    IN  IF ids = <<>> \/ audit_id \notin 1..Len(d.audits)
        THEN [count |-> 0, db |-> d]
        ELSE [count |-> adjusted.count,
              db |-> RefreshForecasts(MarkCounted(adjusted.db, audit_id, t),
                         {d.audit_items[ids[i]].part_id : i \in 1..Len(ids)}, t)]

\* PartsRepo.update_pricing: UPDATE parts SET company_cost_price = ?,
\*   company_markup_percent = ? WHERE id = ?
update_pricing(d, part_id, cost, markup) ==
    IF part_id \notin DOMAIN d.parts THEN d
    ELSE [d EXCEPT !.parts[part_id].company_cost_price = cost,
                   !.parts[part_id].company_markup_percent = markup]

\* ------------------------------------------------------------ transactions

\* await self.db.commit(): the working copy becomes the committed database
Commit(committed, working) == working

\* Rollback that keeps the writes of the lines already processed
RollbackKeepsLines(committed, working) == working

\* await self.db.rollback(): the working copy is dropped
Rollback(committed, working) == committed

\* What the SELECTs of process p read
View(p) == IF lock = p THEN tx ELSE db

Snapshot(d) ==
    [stock |-> d.stock, staging_tags |-> d.staging_tags,
     stock_movements |-> d.stock_movements]

PreCommit == {"resolve", "line"}

\* The committed database becomes d by a step of `actor` (NULL: another
\* handler): every other call in flight would have seen the same change.
Sync(d, actor) ==
    [q \in Procs |->
        IF q # actor /\ pc[q] \in PreCommit \cup {"raised"}
        THEN d ELSE expected[q]]

\* ------------------------------------------------------------------ inputs

Item(part_id, qty, supplier_id) ==
    [part_id |-> part_id, qty |-> qty, supplier_id |-> supplier_id]

LinesOf(part_ids, supplier_ids) ==
    [part_id : part_ids, qty : 1..MaxQty, supplier_id : supplier_ids]

ItemSeqs(lines, n) == UNION {[1..k -> lines] : k \in 1..n}

MovementRequest(path, items, destination_type) ==
    [from_location_type |-> path[1], from_location_id |-> 1,
     to_location_type |-> path[2], to_location_id |-> 1,
     items |-> items, destination_type |-> destination_type,
     destination_id |-> IF destination_type = "" THEN NULL ELSE 1]

\* The requests on the given paths; a destination hint is only read on a move
\* to staging, so only those requests come with and without one.
RequestsOn(paths, itemSeqs) ==
    {MovementRequest(path, items, "") : path \in paths, items \in itemSeqs}
    \cup {MovementRequest(path, items, "truck") :
              path \in {q \in paths : q[2] = "pulled"}, items \in itemSeqs}

IllegalPaths == {<<"warehouse", "job">>, <<"truck", "pulled">>}

NoRequest == MovementRequest(<<"", "">>, <<>>, "")
NoValidation == [valid |-> FALSE, errors |-> <<>>, warnings |-> <<>>]
NoResponse == [success |-> FALSE, total_items |-> 0, total_qty |-> 0]
NoCall == [op |-> "none"]
NoSnapshot == [stock |-> {}, staging_tags |-> {}, stock_movements |-> <<>>]

Prices == {1, 2}

\* ----------------------------------------------------------- initial state

PartRow(type_id, style_id, category_id, levels) ==
    [type_id |-> type_id, style_id |-> style_id, category_id |-> category_id,
     company_cost_price |-> 1, company_markup_percent |-> 0,
     company_sell_price |-> 2,
     min_stock_level |-> levels.min, target_stock_level |-> levels.target,
     max_stock_level |-> levels.max,
     forecast |-> [consumed_30 |-> 0, consumed_90 |-> 0, days_until_low |-> NULL,
                   suggested_order |-> 0, reorder_point |-> 0, target_qty |-> 0]]

LevelChoices ==
    {[min |-> 0, target |-> 3, max |-> 0],
     [min |-> 2, target |-> 0, max |-> 3],
     [min |-> 2, target |-> 3, max |-> 3]}

EmptyDb(levels, prefs) ==
    [stock |-> {}, stock_seq |-> 0, staging_tags |-> {},
     stock_movements |-> <<>>, audits |-> <<>>, audit_items |-> <<>>,
     parts |-> (1 :> PartRow(1, 1, 1, levels)) @@
               (2 :> PartRow(NULL, NULL, 1, [min |-> 2, target |-> 3, max |-> 0])),
     supplier_preferences |-> prefs]

\* The deliveries received (receive_stock at second 0) before the first call
\* of a run.
MixedDelivery == <<Item(1, 2, 1), Item(1, 2, 2), Item(2, 2, NULL)>>
AnonymousDelivery == <<Item(1, 1, NULL), Item(1, 2, 1), Item(2, 1, 1)>>

Delivered(levels, prefs, delivery) ==
    receive_stock(EmptyDb(levels, prefs), delivery, 0).db

InitProcs ==
    /\ tx = db
    /\ lock = NULL
    /\ pc = [p \in Procs |-> "idle"]
    /\ req = [p \in Procs |-> NoRequest]
    /\ idx = [p \in Procs |-> 0]
    /\ sup = [p \in Procs |-> NULL]
    /\ todo = [p \in Procs |-> {}]
    /\ curPart = [p \in Procs |-> NULL]
    /\ lowQty = [p \in Procs |-> 0]
    /\ validation = [p \in Procs |-> NoValidation]
    /\ resp = [p \in Procs |-> NoResponse]
    /\ sideFail = [p \in Procs |-> FALSE]
    /\ expected = [p \in Procs |-> NoSnapshot]
    /\ last = NoCall
    /\ calls = 0

\* ------------------------------------------------- execute_movement, by step

Idle(p) == pc[p] \in {"idle", "done", "raised"}

RECURSIVE TotalQty(_)
TotalQty(items) == IF items = <<>> THEN 0 ELSE Head(items).qty + TotalQty(Tail(items))

\* The call begins: validate_movement reads the committed database; an invalid
\* request raises ValueError before anything is written.
BeginExecute(p, requests, limit) ==
    /\ Idle(p)
    /\ calls < limit
    /\ \E r \in requests :
           LET v == validate_movement(db, r)
           IN  /\ req' = [req EXCEPT ![p] = r]
               /\ validation' = [validation EXCEPT ![p] = v]
               /\ pc' = [pc EXCEPT ![p] = IF v.valid THEN "resolve" ELSE "raised"]
    /\ idx' = [idx EXCEPT ![p] = 1]
    /\ sup' = [sup EXCEPT ![p] = NULL]
    /\ todo' = [todo EXCEPT ![p] = {}]
    /\ curPart' = [curPart EXCEPT ![p] = NULL]
    /\ lowQty' = [lowQty EXCEPT ![p] = 0]
    /\ resp' = [resp EXCEPT ![p] = NoResponse]
    /\ sideFail' = [sideFail EXCEPT ![p] = FALSE]
    /\ expected' = [expected EXCEPT ![p] = db]
    /\ last' = [op |-> "execute_movement"]
    /\ calls' = calls + 1
    /\ UNCHANGED <<db, tx, lock, now>>

\* _execute_single_line of the first line, step 1: the reads of
\* _resolve_supplier, before the transaction is open
Resolve(p) ==
    /\ pc[p] = "resolve"
    /\ \E choice \in _resolve_supplier(View(p), req[p].items[idx[p]],
                       req[p].from_location_type, req[p].from_location_id) :
           sup' = [sup EXCEPT ![p] = choice[1]]
    /\ pc' = [pc EXCEPT ![p] = "line"]
    /\ UNCHANGED <<db, tx, lock, now, req, idx, todo, curPart, lowQty,
                   validation, resp, sideFail, expected, last, calls>>

\* _execute_single_line, steps 2 to 6: the writes of the line, in the
\* transaction of the batch.  The last line is followed by the commit; a line
\* that raises is followed by the rollback.
Line(p) ==
    /\ pc[p] = "line"
    /\ lock \in {NULL, p}
    /\ LET r == req[p]
           item == r.items[idx[p]]
           movement_type == MOVEMENT_RULES[<<r.from_location_type,
                                             r.to_location_type>>].type
           \* inside the transaction nothing can change between the reads of
           \* _resolve_supplier and the writes, so the line is one step
           suppliers ==
               IF lock = p
               THEN {c[1] : c \in _resolve_supplier(tx, item,
                                     r.from_location_type, r.from_location_id)}
               ELSE {sup[p]}
       IN  \E supplier_id \in suppliers,
              rows \in PooledOrders(View(p), item.part_id,
                           r.from_location_type, r.from_location_id) :
             LET res == _execute_single_line(View(p), item, r, movement_type,
                                             now, supplier_id, rows)
             IN  IF ~res.ok
                 THEN /\ db' = Rollback(db, res.db)
                      /\ tx' = db'
                      /\ lock' = NULL
                      /\ pc' = [pc EXCEPT ![p] = "raised"]
                      /\ expected' = Sync(db', p)
                      /\ UNCHANGED <<idx, todo>>
                 ELSE IF idx[p] < Len(r.items)
                 THEN /\ tx' = res.db
                      /\ lock' = p
                      /\ idx' = [idx EXCEPT ![p] = idx[p] + 1]
                      /\ pc' = [pc EXCEPT ![p] = "line"]
                      /\ UNCHANGED <<db, todo, expected>>
                 ELSE /\ db' = Commit(db, res.db)
                      /\ tx' = db'
                      /\ lock' = NULL
                      /\ todo' = [todo EXCEPT ![p] =
                                     {r.items[i].part_id : i \in 1..Len(r.items)}]
                      /\ pc' = [pc EXCEPT ![p] = "forecast"]
                      /\ expected' = Sync(db', p)
                      /\ UNCHANGED idx
    /\ UNCHANGED <<now, req, sup, curPart, lowQty, validation, resp, sideFail,
                   last, calls>>

\* The first write of a line finds the database locked by another connection
\* until the busy timeout: OperationalError, rollback, raise.
LineBusy(p) ==
    /\ pc[p] = "line"
    /\ lock \notin {NULL, p}
    /\ pc' = [pc EXCEPT ![p] = "raised"]
    /\ UNCHANGED <<db, tx, lock, now, req, idx, sup, todo, curPart, lowQty,
                   validation, resp, sideFail, expected, last, calls>>

\* Swallowed with the exception re-raised into execute_movement
Propagated(failed, next) == IF failed THEN "raised" ELSE next

\* except Exception as e: logger.warning(...) at the end of _update_forecast
\* and of _check_low_stock: the exception stops there and the caller goes on
\* to `next`.
Swallowed(failed, next) == next

\* The call returns once the side effects of every affected part have run.
Finish(p, remaining, failed) ==
    LET next == Swallowed(failed, IF remaining = {} THEN "done" ELSE "forecast")
    IN  /\ pc' = [pc EXCEPT ![p] = next]
        /\ resp' = [resp EXCEPT ![p] =
               IF next = "done"
               THEN [success |-> TRUE, total_items |-> Len(req[p].items),
                     total_qty |-> TotalQty(req[p].items)]
               ELSE resp[p]]

\* _update_forecast of the next affected part.  Its UPDATE needs the write
\* lock; when another transaction holds it the exception is logged, not raised.
ForecastStep(p) ==
    /\ pc[p] = "forecast"
    /\ \E part_id \in todo[p] :
           /\ curPart' = [curPart EXCEPT ![p] = part_id]
           /\ IF lock = NULL
              THEN /\ db' = Commit(db, _update_forecast(db, part_id, now))
                   /\ UNCHANGED sideFail
              ELSE /\ db' = db
                   /\ sideFail' = [sideFail EXCEPT ![p] = TRUE]
    /\ tx' = IF lock = NULL THEN db' ELSE tx
    /\ pc' = [pc EXCEPT ![p] = Swallowed(lock # NULL, "lowstock")]
    /\ expected' = Sync(db', p)
    /\ UNCHANGED <<lock, now, req, idx, sup, todo, lowQty, validation, resp,
                   last, calls>>

\* _check_low_stock, its reads: the part, the warehouse quantity, the open
\* spot checks.
LowStockCheck(p) ==
    /\ pc[p] = "lowstock"
    /\ IF LowStockWanted(db, curPart[p])
       THEN /\ lowQty' = [lowQty EXCEPT ![p] = WarehouseQty(db, curPart[p])]
            /\ pc' = [pc EXCEPT ![p] = "lowcreate"]
            /\ UNCHANGED <<todo, resp>>
       ELSE /\ todo' = [todo EXCEPT ![p] = todo[p] \ {curPart[p]}]
            /\ Finish(p, todo[p] \ {curPart[p]}, FALSE)
            /\ UNCHANGED lowQty
    /\ UNCHANGED <<db, tx, lock, now, req, idx, sup, curPart, validation,
                   sideFail, expected, last, calls>>

\* _check_low_stock, its INSERTs and commit.
LowStockCreate(p) ==
    /\ pc[p] = "lowcreate"
    /\ IF lock = NULL
       THEN /\ db' = Commit(db, CreateSpotCheck(db, curPart[p], lowQty[p]))
            /\ UNCHANGED sideFail
       ELSE /\ db' = db
            /\ sideFail' = [sideFail EXCEPT ![p] = TRUE]
    /\ tx' = IF lock = NULL THEN db' ELSE tx
    /\ todo' = [todo EXCEPT ![p] = todo[p] \ {curPart[p]}]
    /\ Finish(p, todo[p] \ {curPart[p]}, lock # NULL)
    /\ expected' = Sync(db', p)
    /\ UNCHANGED <<lock, now, req, idx, sup, curPart, lowQty, validation,
                   last, calls>>

\* ------------------------------------------------------- the other handlers

\* A handler that runs from its first write to its last commit without another
\* transaction open: the committed database becomes d and `result` is kept.
Handler(d, result, limit) ==
    /\ lock = NULL
    /\ calls < limit
    /\ db' = d
    /\ tx' = d
    /\ last' = result
    /\ expected' = Sync(d, NULL)
    /\ calls' = calls + 1
    /\ UNCHANGED <<lock, now, pc, req, idx, sup, todo, curPart, lowQty,
                   validation, resp, sideFail>>

ReceiveStock(requests, limit) ==
    \E items \in requests :
        LET res == receive_stock(db, items, now)
        IN  Handler(res.db, [op |-> "receive_stock", ok |-> res.ok, items |-> items],
                    limit)

StartAudit(limit) ==
    /\ Len(db.audits) < MaxAudits
    /\ \E location_type \in {"warehouse"},
          part_ids \in {<<1>>, <<2>>, <<1, 2>>} :
           Handler(start_audit(db, location_type, 1, part_ids),
                   [op |-> "start_audit", audit_id |-> Len(db.audits) + 1], limit)

RecordCount(counts, limit) ==
    \E audit_id \in 1..Len(db.audits), item_id \in 1..(Len(db.audit_items) + 1),
       count \in counts :
        LET actual_qty == count[1]
            result == count[2]
            res == record_count(db, audit_id, item_id, actual_qty, result)
        IN  Handler(res.db, [op |-> "record_count", ok |-> res.ok,
                             audit_id |-> audit_id, item_id |-> item_id], limit)

CompleteAudit(limit) ==
    \E audit_id \in 1..Len(db.audits) :
        LET res == complete_audit(db, audit_id)
        IN  Handler(res.db, [op |-> "complete_audit", audit_id |-> audit_id,
                             progress |-> res.progress], limit)

ApplyAdjustments(limit) ==
    \E audit_id \in 1..Len(db.audits) :
        LET res == apply_adjustments(db, audit_id, now)
        IN  Handler(res.db, [op |-> "apply_adjustments", ok |-> TRUE,
                             audit_id |-> audit_id, count |-> res.count], limit)

\* apply_adjustments while the transaction of another connection is open: its
\* first write waits for the write lock until the busy timeout and raises
\* OperationalError out of the loop; nothing of the call is committed and no
\* count is returned.
ApplyAdjustmentsBusy(limit) ==
    /\ lock # NULL
    /\ calls < limit
    /\ \E audit_id \in 1..Len(db.audits) :
          /\ DiscrepancyItems(db, audit_id) # <<>>
          /\ last' = [op |-> "apply_adjustments", ok |-> FALSE,
                      audit_id |-> audit_id, count |-> 0]
    /\ calls' = calls + 1
    /\ UNCHANGED <<db, tx, lock, now, pc, req, idx, sup, todo, curPart, lowQty,
                   validation, resp, sideFail, expected>>

UpdatePricing(limit) ==
    \E part_id \in PartIds, cost \in Prices :
        /\ db.parts[part_id].company_cost_price # cost
        /\ Handler(update_pricing(db, part_id, cost, 0),
                   [op |-> "update_pricing", part_id |-> part_id], limit)

NoPreview ==
    [lines |-> <<>>, total_qty |-> 0, movement_type |-> "",
     photo_required |-> FALSE, warnings |-> <<>>]

\* POST /movements/preview: the request is validated and, when valid,
\* previewed; both read the committed database and nothing is written.
PreviewMovement(requests, limit) ==
    /\ calls < limit
    /\ \E r \in requests :
          LET v == validate_movement(db, r)
          IN  \E choices \in ResolutionsOf(db, r) :
                  last' = [op |-> "preview_movement", req |-> r, valid |-> v.valid,
                           preview |-> IF v.valid
                                       THEN calculate_preview(db, r, choices)
                                       ELSE NoPreview]
    /\ calls' = calls + 1
    /\ UNCHANGED <<db, tx, lock, now, pc, req, idx, sup, todo, curPart, lowQty,
                   validation, resp, sideFail, expected>>

\* ----------------------------------------------------------- specifications

\* Spec: two connections run execute_movement concurrently on warehouse stock,
\* while deliveries are received and an audit is applied.  The batches: single
\* lines and two-line batches on the same rows, with the supplier named or
\* left to the resolution.
EngineRequests ==
    RequestsOn({<<"warehouse", "truck">>},
               {<<Item(2, 1, NULL)>>,
                <<Item(2, 2, NULL), Item(2, 1, NULL)>>,
                <<Item(1, 1, 1)>>,
                <<Item(1, 2, 1)>>,
                <<Item(1, 1, NULL), Item(1, 2, NULL)>>,
                <<Item(1, 2, NULL), Item(2, 2, NULL)>>})

EngineReceipts == {<<Item(1, 1, 1)>>, <<Item(2, 1, NULL)>>}

\* A completed spot check of both parts in the warehouse that counted 3 of
\* part 1 and none of part 2.
CountedShort(d) ==
    complete_audit(
        record_count(
            record_count(start_audit(d, "warehouse", 1, <<1, 2>>),
                         1, 1, MaxCount, "discrepancy").db,
            1, 2, 0, "discrepancy").db,
        1).db

Init ==
    /\ db = CountedShort(Delivered([min |-> 2, target |-> 3, max |-> 3], <<>>,
                                   MixedDelivery))
    /\ now = 1
    /\ InitProcs

\* The two connections are interchangeable: the first call of a run is on 1.
Movement(p) ==
    \/ /\ p = 1 \/ pc[1] # "idle"
       /\ BeginExecute(p, EngineRequests, MaxCalls)
    \/ Resolve(p)
    \/ Line(p)
    \/ LineBusy(p)
    \/ ForecastStep(p)
    \/ LowStockCheck(p)
    \/ LowStockCreate(p)

Next ==
    \/ \E p \in Procs : Movement(p)
    \/ ReceiveStock(EngineReceipts, MaxCalls)
    \/ ApplyAdjustments(MaxCalls)
    \/ ApplyAdjustmentsBusy(MaxCalls)

Spec == Init /\ [][Next]_vars

\* SpecBatch: the first execute_movement call on a database, over every
\* kind of request (legal and illegal paths, known and unknown parts, explicit
\* and unspecified suppliers, with and without a destination hint) and over
\* databases that differ in stock levels, supplier preferences, deliveries and
\* audits already on file.
BatchLines ==
    LinesOf(PartIds, {NULL, 1}) \cup {Item(MissingPart, 1, NULL)}

BatchRequests ==
    RequestsOn({<<"warehouse", "pulled">>, <<"warehouse", "truck">>,
                <<"truck", "job">>} \cup IllegalPaths,
               ItemSeqs(BatchLines, MaxLines))

\* One unit of part 1 of supplier 1 already moved to the truck at second 0.
Loaded(d) ==
    LET r == MovementRequest(<<"warehouse", "truck">>, <<Item(1, 1, 1)>>, "")
    IN  _update_forecast(
            _execute_single_line(d, r.items[1], r, "transfer", 0, 1, <<>>).db, 1, 0)

\* The audits on file: none, an open spot check of part 2, a completed one.
AuditsOnFile(d) ==
    {d, start_audit(d, "warehouse", 1, <<2>>),
     complete_audit(start_audit(d, "warehouse", 1, <<2>>), 1).db}

\* The supplier preferences on file and the deliveries received with them.
Scenes ==
    {<<<<>>, AnonymousDelivery>>,
     <<(<<"part", 1>> :> 2), MixedDelivery>>,
     <<(<<"type", 1>> :> 2) @@ (<<"category", 1>> :> 1), AnonymousDelivery>>}

InitBatch ==
    /\ db \in UNION {AuditsOnFile(Loaded(Delivered(levels, scene[1], scene[2]))) :
                      levels \in LevelChoices, scene \in Scenes}
    /\ now = 1
    /\ InitProcs

NextBatch ==
    \/ /\ pc[1] = "idle"
       /\ BeginExecute(1, BatchRequests, MaxCalls)
    \/ Resolve(1)
    \/ Line(1)
    \/ ForecastStep(1)
    \/ LowStockCheck(1)
    \/ LowStockCreate(1)

SpecBatch == InitBatch /\ [][NextBatch]_vars

\* SpecAudit: the handlers one after the other on one database: audits are
\* started, counted, completed and applied, prices change, deliveries arrive
\* and single lines are moved out of the warehouse.
AuditCounts ==
    {<<0, "discrepancy">>, <<MaxCount, "discrepancy">>, <<MaxCount, "match">>,
     <<0, "skipped">>}

AuditRequests ==
    RequestsOn({<<"warehouse", "truck">>},
               {<<Item(1, 1, NULL)>>, <<Item(2, 1, NULL)>>})

\* No audit yet, or a spot check of both parts just started.
InitAudit ==
    /\ db \in LET d == Delivered([min |-> 2, target |-> 3, max |-> 3], <<>>,
                                MixedDelivery)
               IN  {d, start_audit(d, "warehouse", 1, <<1, 2>>)}
    /\ now = 1
    /\ InitProcs

NextAudit ==
    \/ StartAudit(MaxAuditCalls)
    \/ RecordCount(AuditCounts, MaxAuditCalls)
    \/ CompleteAudit(MaxAuditCalls)
    \/ ApplyAdjustments(MaxAuditCalls)
    \/ UpdatePricing(MaxAuditCalls)
    \/ ReceiveStock({<<Item(2, 1, NULL)>>}, MaxAuditCalls)
    \/ /\ lock = NULL
       /\ BeginExecute(1, AuditRequests, MaxAuditCalls)
    \/ Resolve(1)
    \/ Line(1)
    \/ ForecastStep(1)
    \/ LowStockCheck(1)
    \/ LowStockCreate(1)

SpecAudit == InitAudit /\ [][NextAudit]_vars

\* SpecForecast: the forecast of a part is recomputed again and again while
\* time passes and deliveries arrive, on databases whose log holds a transfer
\* to the truck made at second 0.

\* One more `await self._update_forecast(part_id)`, with its own commit.
\* `run` counts the recomputations of the part since the last other call and
\* `prev` is the time of the one before this (NULL for the first).
RefreshForecast(limit) ==
    /\ lock = NULL
    /\ calls < limit
    /\ \E part_id \in PartIds :
          /\ db' = Commit(db, _update_forecast(db, part_id, now))
          /\ last' = [op |-> "update_forecast", part_id |-> part_id, at |-> now,
                      run |-> IF last.op = "update_forecast" /\ last.part_id = part_id
                              THEN last.run + 1 ELSE 1,
                      prev |-> IF last.op = "update_forecast" /\ last.part_id = part_id
                               THEN last.at ELSE NULL]
    /\ tx' = db'
    /\ expected' = Sync(db', NULL)
    /\ calls' = calls + 1
    /\ UNCHANGED <<lock, pc, req, idx, sup, todo, curPart, lowQty, validation,
                   resp, sideFail, now>>

\* datetime('now') a month later.
Tick ==
    /\ now < MaxMonths * Days30
    /\ now' = now + Days30
    /\ UNCHANGED <<db, tx, lock, pc, req, idx, sup, todo, curPart, lowQty,
                   validation, resp, sideFail, expected, last, calls>>

InitForecast ==
    /\ db \in UNION {AuditsOnFile(Loaded(Delivered(levels, scene[1], scene[2]))) :
                      levels \in LevelChoices, scene \in Scenes}
    /\ now = 1
    /\ InitProcs

NextForecast ==
    \/ RefreshForecast(MaxCalls + 1)
    \/ Tick
    \/ ReceiveStock(EngineReceipts, MaxCalls + 1)

SpecForecast == InitForecast /\ [][NextForecast]_vars

\* SpecPreview: requests on every legal path are previewed and executed on a
\* database with stock of part 1 in the warehouse, in staging, on the truck and
\* at the job, under different supplier preferences, while an audit that
\* counted none of part 2 is applied.

\* One line moved at time t, with its supplier named.
Moved(d, path, item, t) ==
    _execute_single_line(d, item, MovementRequest(path, <<item>>, ""),
                         MOVEMENT_RULES[path].type, t, item.supplier_id, <<>>).db

\* Supplier 2's delivery of part 1 was received at second 0 and spread over
\* the locations; supplier 1's unit came in at second 1.
Spread(d) ==
    LET pulled == Moved(d, <<"warehouse", "pulled">>, Item(1, 1, 2), 0)
        loaded == Moved(pulled, <<"warehouse", "truck">>, Item(1, 2, 2), 0)
        used == Moved(loaded, <<"truck", "job">>, Item(1, 1, 2), 0)
        again == receive_stock(used, <<Item(1, 1, 1)>>, 1).db
    IN  record_count(start_audit(again, "warehouse", 1, <<2>>),
                     1, 1, 0, "discrepancy").db

PreviewPreferences ==
    {<<>>,
     (<<"part", 1>> :> 1) @@ (<<"type", 1>> :> 2),
     (<<"type", 1>> :> 2) @@ (<<"category", 1>> :> 1),
     (<<"style", 1>> :> 1) @@ (<<"category", 1>> :> 2)}

PreviewRequests ==
    {MovementRequest(path, items, "") :
         path \in DOMAIN MOVEMENT_RULES,
         items \in {<<Item(1, 2, NULL)>>, <<Item(1, 1, 2)>>, <<Item(2, 1, NULL)>>,
                    <<Item(1, 1, NULL), Item(2, 1, NULL)>>}}

\* The requests that are also executed: those of one line.
PreviewMoves ==
    {r \in PreviewRequests : Len(r.items) = 1}

InitPreview ==
    /\ db \in {Spread(Delivered([min |-> 2, target |-> 3, max |-> 3], prefs,
                                <<Item(1, 5, 2), Item(2, 1, NULL), Item(2, 2, 1)>>)) :
                   prefs \in PreviewPreferences}
    /\ now = 2
    /\ InitProcs

NextPreview ==
    \/ PreviewMovement(PreviewRequests, MaxCalls)
    \/ /\ pc[1] = "idle"
       /\ BeginExecute(1, PreviewMoves, MaxCalls)
    \/ Resolve(1)
    \/ Line(1)
    \/ ForecastStep(1)
    \/ LowStockCheck(1)
    \/ LowStockCreate(1)
    \/ ApplyAdjustments(MaxCalls)

SpecPreview == InitPreview /\ [][NextPreview]_vars

\* SpecUsage: the forecast of part 1 is recomputed on databases where a
\* delivery of part 1 came in and most of it went to the truck at second 0, so
\* that more than one unit a day was used: the warehouse is left below, at or
\* above the minimum.  On these quantities the float quotient of
\* _update_forecast, (wh_qty - min_level) / (consumed_30 / 30.0), truncates to
\* the same integer as the exact quotient.

\* <<received, sent to the truck>>
Usage == {<<3, 1>>, <<4, 2>>, <<32, 31>>, <<33, 31>>, <<47, 45>>, <<62, 60>>}

Used(levels, received, used) ==
    Moved(Delivered(levels, <<>>, <<Item(1, received, NULL)>>),
          <<"warehouse", "truck">>, Item(1, used, NULL), 0)

InitUsage ==
    /\ db \in {Used(levels, u[1], u[2]) : levels \in LevelChoices, u \in Usage}
    /\ now = 1
    /\ InitProcs

NextUsage ==
    \/ RefreshForecast(MaxCalls + 1)
    \/ Tick
    \/ ReceiveStock(EngineReceipts, MaxCalls + 1)

SpecUsage == InitUsage /\ [][NextUsage]_vars

\* SpecStaging: one connection moves part 1 into staging, with and without a
\* destination hint, and out of it again, to the truck or back to the
\* warehouse, call after call.
StagingRequests ==
    RequestsOn({<<"warehouse", "pulled">>, <<"pulled", "truck">>,
                <<"pulled", "warehouse">>},
               {<<Item(1, 1, 1)>>, <<Item(1, 2, 1)>>, <<Item(1, 1, 2)>>,
                <<Item(1, 1, NULL)>>, <<Item(1, 1, 1), Item(1, 1, 2)>>})

InitStaging ==
    /\ db = Delivered([min |-> 2, target |-> 3, max |-> 3], <<>>, MixedDelivery)
    /\ now = 1
    /\ InitProcs

NextStaging ==
    \/ BeginExecute(1, StagingRequests, MaxCalls + 1)
    \/ Resolve(1)
    \/ Line(1)
    \/ ForecastStep(1)
    \/ LowStockCheck(1)
    \/ LowStockCreate(1)

SpecStaging == InitStaging /\ [][NextStaging]_vars

\* --------------------------------------------------------------- properties

PostCommit == {"forecast", "lowstock", "lowcreate"}

\* C1: after any interleaving of execute_movement, receive_stock and
\* apply_adjustments calls, every stock row has qty >= 0, in the committed
\* database and in the working copy of the open transaction.
NoNegativeStock == \A r \in db.stock \cup tx.stock : r.qty >= 0

\* Two calls raced for the same part: one committed, the other passed validation
\* and was then refused because the stock had gone.
RaceRefused ==
    \E p, q \in Procs :
        /\ p # q
        /\ pc[p] \in PostCommit \cup {"done"}
        /\ pc[q] = "raised"
        /\ validation[q].valid
        /\ \E i \in 1..Len(req[q].items), j \in 1..Len(req[p].items) :
              /\ req[q].items[i].part_id = req[p].items[j].part_id
              /\ SumQty({r \in db.stock :
                            /\ r.part_id = req[q].items[i].part_id
                            /\ r.location_type = req[q].from_location_type})
                     < req[q].items[i].qty

\* C2: once a call of execute_movement has raised (validation error, missing
\* part, or a deduction refused after earlier lines were processed), the stock
\* rows, the staging tags and the movement log are what they were before it.
Atomicity ==
    \A p \in Procs : pc[p] = "raised" => Snapshot(db) = Snapshot(expected[p])

\* A batch that passed validation and was refused at its second line.
RefusedMidBatch ==
    /\ pc[1] = "raised"
    /\ validation[1].valid
    /\ idx[1] = 2
    /\ lock = NULL

\* C3: the commit of a batch on a transfer path takes the sum of the lines' qty
\* out of the source location and puts the same quantity in the destination.
Conservation ==
    [][\A p \in Procs :
          LET r == req[p]
              At(d, lt, lid) ==
                  SumQty({x \in d.stock : x.location_type = lt /\ x.location_id = lid})
              moved == TotalQty(r.items)
          IN  (/\ pc[p] = "line"
               /\ pc'[p] = "forecast"
               /\ MOVEMENT_RULES[<<r.from_location_type, r.to_location_type>>].type
                      = "transfer")
              => /\ At(db, r.from_location_type, r.from_location_id)
                        - At(db', r.from_location_type, r.from_location_id) = moved
                 /\ At(db', r.to_location_type, r.to_location_id)
                        - At(db, r.to_location_type, r.to_location_id) = moved]_vars

\* C4: the movement log only grows at its end: no step of any operation
\* changes or removes an entry, so an entry keeps the prices it was logged with.
LogAppendOnly ==
    [][/\ Len(db'.stock_movements) >= Len(db.stock_movements)
       /\ SubSeq(db'.stock_movements, 1, Len(db.stock_movements))
              = db.stock_movements]_vars

\* An entry whose cost snapshot is not the part's cost any more.
PriceChangedAfterEntry ==
    \E i \in 1..Len(db.stock_movements) :
        LET entry == db.stock_movements[i]
        IN  /\ entry.movement_type = "transfer"
            /\ entry.unit_cost_at_move # db.parts[entry.part_id].company_cost_price

\* C5: on a path that is not a key of MOVEMENT_RULES validate_movement answers
\* valid = false with one error that names no part and with no warning, and
\* execute_movement raises with the stock rows and the log unchanged.
IllegalPathRejected ==
    \A p \in Procs :
        (/\ pc[p] # "idle"
         /\ <<req[p].from_location_type, req[p].to_location_type>>
                \notin DOMAIN MOVEMENT_RULES)
        => /\ ~validation[p].valid
           /\ Len(validation[p].errors) = 1
           /\ validation[p].errors[1].part_id = NULL
           /\ validation[p].warnings = <<>>
           /\ pc[p] = "raised"
           /\ db.stock = expected[p].stock
           /\ db.stock_movements = expected[p].stock_movements

\* An illegal path with a line that the part-level checks would have reported.
IllegalPathWithBadLine ==
    /\ pc[1] = "raised"
    /\ <<req[1].from_location_type, req[1].to_location_type>> \in IllegalPaths
    /\ \E i \in 1..Len(req[1].items) : req[1].items[i].part_id = MissingPart

\* C6: on a legal path the errors of validate_movement are, in line order, the
\* lines whose part does not exist or whose qty exceeds the part's quantity
\* summed over all supplier rows of the source; valid is true exactly when
\* there is none; and a call with such a line raises with nothing changed.
ValidationErrorsExact ==
    \A p \in Procs :
        LET r == req[p]
            before == expected[p]
            Available(item) ==
                SumQty({x \in before.stock :
                           /\ x.part_id = item.part_id
                           /\ x.location_type = r.from_location_type
                           /\ x.location_id = r.from_location_id})
            bad == {i \in 1..Len(r.items) :
                       \/ r.items[i].part_id \notin DOMAIN before.parts
                       \/ r.items[i].qty > Available(r.items[i])}
            errors == validation[p].errors
        IN  (/\ pc[p] # "idle"
             /\ <<r.from_location_type, r.to_location_type>> \in DOMAIN MOVEMENT_RULES)
            => /\ Len(errors) = Cardinality(bad)
               /\ \A i \in bad :
                      LET k == Cardinality({j \in bad : j <= i})
                      IN  /\ errors[k].part_id = r.items[i].part_id
                          /\ r.items[i].part_id \in DOMAIN before.parts
                                 => /\ errors[k].requested = r.items[i].qty
                                    /\ errors[k].available = Available(r.items[i])
               /\ validation[p].valid <=> bad = {}
               /\ bad # {} => /\ pc[p] = "raised"
                              /\ Snapshot(db) = Snapshot(before)

\* More requested than the source holds over its supplier rows, which is not
\* nothing.
InsufficientStockRefused ==
    /\ pc[1] = "raised"
    /\ <<req[1].from_location_type, req[1].to_location_type>> \in DOMAIN MOVEMENT_RULES
    /\ \E k \in 1..Len(validation[1].errors) :
          /\ validation[1].errors[k].field = "qty"
          /\ validation[1].errors[k].available > 0
          /\ validation[1].errors[k].requested > validation[1].errors[k].available

\* C7: an audit with status completed has matched + discrepancies + skipped
\* equal to total_items, in its cached counts and in the summary complete_audit
\* returned.
AuditConservation ==
    /\ \A a \in 1..Len(db.audits) :
          db.audits[a].status = "completed"
          => db.audits[a].matched_items + db.audits[a].discrepancy_count
                 + db.audits[a].skipped_count = db.audits[a].total_items
    /\ last.op = "complete_audit"
          => last.progress.matched + last.progress.discrepancies
                 + last.progress.skipped = last.progress.total_items

\* C8: apply_adjustments moves the total of each discrepancy item's part at the
\* audited location from T to T + diff (diff > 0) or to max(0, T + diff)
\* (diff < 0), however many supplier rows the part has there.
AdjustmentTotals ==
    [][(calls' = calls + 1 /\ last'.op = "apply_adjustments")
       => LET audit == db.audits[last'.audit_id]
              Total(d, part_id) ==
                  SumQty({x \in d.stock :
                             /\ x.part_id = part_id
                             /\ x.location_type = audit.location_type
                             /\ x.location_id = audit.location_id})
          IN  \A i \in 1..Len(db.audit_items) :
                  LET item == db.audit_items[i]
                      diff == item.actual_qty - item.expected_qty
                      T == Total(db, item.part_id)
                  IN  (/\ item.audit_id = last'.audit_id
                       /\ item.result = "discrepancy"
                       /\ item.actual_qty # NoQty
                       /\ diff # 0)
                      => Total(db', item.part_id)
                             = IF diff > 0 THEN T + diff
                               ELSE IF T + diff > 0 THEN T + diff ELSE 0]_vars

SideEffectsAfterCommit ==
    /\ [](\A p \in Procs :
             /\ pc[p] = "raised" => curPart[p] = NULL /\ ~sideFail[p]
             /\ pc[p] \in PostCommit \cup {"done"} => lock # p
             /\ pc[p] = "done" => resp[p].success)
    /\ [][\A p \in Procs :
             /\ (pc[p] = "line" /\ pc'[p] = "forecast")
                => Len(db'.stock_movements)
                       = Len(db.stock_movements) + Len(req[p].items)
             /\ (pc[p] \in PostCommit /\ pc'[p] # pc[p])
                => Snapshot(db') = Snapshot(db)
             /\ curPart'[p] # curPart[p] /\ curPart'[p] # NULL
                => pc[p] = "forecast"]_vars

\* A call that returned success although a side effect of it failed.
SucceededDespiteFailure ==
    \E p \in Procs :
        /\ pc[p] = "done"
        /\ sideFail[p]
        /\ resp[p].success
        /\ Len(db.stock_movements) >= Len(req[p].items)

\* C11: with the same preferences and the same stock rows at the source,
\* resolving a line has one possible answer: the same (supplier, source label)
\* pair every time, also when rows of the source have equal updated_at.
ResolutionDeterministic ==
    \A p \in Procs :
        pc[p] = "resolve"
        => Cardinality(_resolve_supplier(View(p), req[p].items[idx[p]],
               req[p].from_location_type, req[p].from_location_id)) = 1

\* C12: receive_stock applies every item (the quantity held in the warehouse
\* under the item's part and supplier grows by what was received for them, and
\* the log gains one 'receive' entry without a source per item, in order) or,
\* when a part is missing, changes no stock row and appends no entry.
ReceiveAllOrNothing ==
    [][(calls' = calls + 1 /\ last'.op = "receive_stock")
       => LET items == last'.items
              Held(d, item) ==
                  SumQty({x \in StockAt(d, item.part_id, "warehouse", 1) :
                             x.supplier_id = item.supplier_id})
              Received(item) ==
                  SumQty({[id |-> i, qty |-> items[i].qty] :
                             i \in {j \in 1..Len(items) :
                                       /\ items[j].part_id = item.part_id
                                       /\ items[j].supplier_id = item.supplier_id}})
              n == Len(db.stock_movements)
          IN  IF last'.ok
              THEN /\ \A i \in 1..Len(items) :
                         Held(db', items[i]) = Held(db, items[i]) + Received(items[i])
                   /\ Len(db'.stock_movements) = n + Len(items)
                   /\ \A i \in 1..Len(items) :
                         LET entry == db'.stock_movements[n + i]
                         IN  /\ entry.movement_type = "receive"
                             /\ entry.from_location_type = ""
                             /\ entry.to_location_type = "warehouse"
                             /\ entry.part_id = items[i].part_id
                             /\ entry.qty = items[i].qty
                             /\ entry.supplier_id = items[i].supplier_id
              ELSE Snapshot(db') = Snapshot(db)]_vars

\* C13: an audit item whose result is match, discrepancy or skipped keeps its
\* result and its actual quantity through every later step of every operation.
ItemResultTerminal ==
    [][\A i \in 1..Len(db.audit_items) :
          db.audit_items[i].result \in {"match", "discrepancy", "skipped"}
          => /\ db'.audit_items[i].result = db.audit_items[i].result
             /\ db'.audit_items[i].actual_qty = db.audit_items[i].actual_qty]_vars

\* C14: apply_adjustments applies each discrepancy on its own: it returns a
\* count, the count is the number of adjustments committed, and at most the
\* discrepancy whose application failed is left unapplied.
AdjustmentsIndependent ==
    [][(calls' = calls + 1 /\ last'.op = "apply_adjustments")
       => LET audit_id == last'.audit_id
              due == {i \in ItemIds(db, audit_id) :
                         /\ db.audit_items[i].result = "discrepancy"
                         /\ db.audit_items[i].actual_qty # NoQty
                         /\ db.audit_items[i].actual_qty # db.audit_items[i].expected_qty}
              new == (Len(db.stock_movements) + 1)..Len(db'.stock_movements)
              applied == {i \in due :
                             \E k \in new :
                                 /\ db'.stock_movements[k].movement_type = "adjust"
                                 /\ db'.stock_movements[k].audit_ref = audit_id
                                 /\ db'.stock_movements[k].part_id
                                        = db.audit_items[i].part_id}
          IN  /\ last'.ok
              /\ last'.count = Cardinality(applied)
              /\ Cardinality(due \ applied) <= 1]_vars

\* C15 as stated: recomputing the forecast of a part again, with no movement,
\* stock change or part change since its last recomputation, leaves adu_30,
\* adu_90, reorder point, suggested order and days-until-low as they are, and
\* changes no stock row and no log entry.
ForecastIdempotent ==
    [][(/\ last.op = "update_forecast"
        /\ last'.op = "update_forecast"
        /\ last'.part_id = last.part_id)
       => /\ db'.parts[last.part_id].forecast = db.parts[last.part_id].forecast
          /\ Snapshot(db') = Snapshot(db)]_vars

\* C15, amended: the same, for a recomputation before which no log entry of
\* the part has left the 30-day or the 90-day window since the last one.
ForecastIdempotentInWindow ==
    [][(/\ last.op = "update_forecast"
        /\ last'.op = "update_forecast"
        /\ last'.part_id = last.part_id
        /\ Consumed(db, last.part_id, now, Days30)
               = Consumed(db, last.part_id, last.at, Days30)
        /\ Consumed(db, last.part_id, now, Days90)
               = Consumed(db, last.part_id, last.at, Days90))
       => /\ db'.parts[last.part_id].forecast = db.parts[last.part_id].forecast
          /\ Snapshot(db') = Snapshot(db)]_vars

\* A part with usage on record recomputed twice in a row, the second time a
\* month after the first, with the same forecast both times.
RecomputedAMonthLater ==
    /\ last.op = "update_forecast"
    /\ last.run >= 2
    /\ last.prev = 1 + Days30
    /\ last.at = 1 + 2 * Days30
    /\ db.parts[last.part_id].forecast.consumed_90 > 0
    /\ db.parts[last.part_id].forecast.suggested_order > 0

\* C16: a preview reports the kind and photo_required of the request's own
\* path in MOVEMENT_RULES ((truck, warehouse): return without photo; (job,
\* truck): return with photo), and the log entries a batch commits carry the
\* kind of the batch's path.
PreviewFollowsPath ==
    [][/\ (calls' = calls + 1 /\ last'.op = "preview_movement" /\ last'.valid)
          => LET path == <<last'.req.from_location_type, last'.req.to_location_type>>
                 preview == last'.preview
             IN  /\ preview.movement_type = MOVEMENT_RULES[path].type
                 /\ preview.photo_required = MOVEMENT_RULES[path].photo_required
                 /\ path = <<"truck", "warehouse">>
                        => preview.movement_type = "return" /\ ~preview.photo_required
                 /\ path = <<"job", "truck">>
                        => preview.movement_type = "return" /\ preview.photo_required
       /\ \A p \in Procs :
             (pc[p] = "line" /\ pc'[p] = "forecast")
             => \A k \in (Len(db.stock_movements) + 1)..Len(db'.stock_movements) :
                    db'.stock_movements[k].movement_type
                        = MOVEMENT_RULES[<<req[p].from_location_type,
                                           req[p].to_location_type>>].type]_vars

\* A return from the truck was committed and logged as a return, and a return
\* from the job was previewed with a photo asked for.
ReturnsPreviewedAndLogged ==
    /\ pc[1] = "done"
    /\ <<req[1].from_location_type, req[1].to_location_type>> = <<"truck", "warehouse">>
    /\ db.stock_movements[Len(db.stock_movements)].movement_type = "return"
    /\ last.op = "preview_movement"
    /\ last.valid
    /\ <<last.req.from_location_type, last.req.to_location_type>> = <<"job", "truck">>
    /\ last.preview.photo_required

PooledFallback ==
    [][\A p \in Procs :
          LET r == req[p]
              item == r.items[idx[p]]
              after == IF lock' = p THEN tx' ELSE db'
              T == _get_available_qty(View(p), item.part_id,
                       r.from_location_type, r.from_location_id)
          IN  (pc[p] = "line" /\ (pc'[p] # "line" \/ idx'[p] # idx[p]))
              => IF T >= item.qty
                 THEN /\ pc'[p] # "raised"
                      /\ _get_available_qty(after, item.part_id,
                             r.from_location_type, r.from_location_id) = T - item.qty
                      /\ \A x \in after.stock : x.qty >= 0
                 ELSE pc'[p] = "raised"]_vars

\* C19: the committed database holds no stock row with qty = 0.
NoZeroRows == \A r \in db.stock : r.qty # 0

\* C20: the committed database holds at most one stock row per (part, location
\* type, location id, supplier), no supplier being one supplier value.
StockKeyUnique ==
    \A r, s \in db.stock :
        (/\ r.part_id = s.part_id
         /\ r.location_type = s.location_type
         /\ r.location_id = s.location_id
         /\ r.supplier_id = s.supplier_id)
        => r = s

\* C21: every audit item stored with result match has actual = expected, and
\* every item stored with result discrepancy has actual # expected.
ResultFollowsCount ==
    \A i \in 1..Len(db.audit_items) :
        LET item == db.audit_items[i]
        IN  /\ item.result = "match" => item.actual_qty = item.expected_qty
            /\ item.result = "discrepancy" => item.actual_qty # item.expected_qty

\* C22: the cached counts of every audit session are the numbers of its items:
\* in total and with result match, discrepancy and skipped.
SummaryCountsExact ==
    \A audit_id \in 1..Len(db.audits) :
        LET audit == db.audits[audit_id]
        IN  /\ audit.total_items = Cardinality(ItemIds(db, audit_id))
            /\ audit.matched_items = CountResult(db, audit_id, "match")
            /\ audit.discrepancy_count = CountResult(db, audit_id, "discrepancy")
            /\ audit.skipped_count = CountResult(db, audit_id, "skipped")

\* C23: after _update_forecast with 30-day consumption C, warehouse quantity W
\* and minimum M, days_until_low is max(-1, floor((W - M) / (C / 30))) if
\* C > 0, the floor rounding toward minus infinity; -1 if C = 0 and W <= M;
\* 999 otherwise; and never below -1.
DaysUntilLowFloored ==
    last.op = "update_forecast"
    => LET part == db.parts[last.part_id]
           C == Consumed(db, last.part_id, last.at, Days30)
           W == SumQty({r \in db.stock : /\ r.part_id = last.part_id
                                         /\ r.location_type = "warehouse"})
           M == part.min_stock_level
           days == part.forecast.days_until_low
       IN  /\ days >= 0 - 1
           /\ C > 0 => days = Max(0 - 1, ((W - M) * 30) \div C)
           /\ (C = 0 /\ W <= M) => days = 0 - 1
           /\ (C = 0 /\ W > M) => days = 999

\* C24: every staging tag refers to an existing stock row in staging, no stock
\* row has two tags, and when a batch that moves stock out of staging commits,
\* no tag is left on a row it took units from, whether the row was emptied and
\* deleted or not.
StagingTagsFollowStock ==
    [][/\ \A g \in db'.staging_tags :
             \E r \in db'.stock : r.id = g.stock_id /\ r.location_type = "pulled"
       /\ \A g, h \in db'.staging_tags : g.stock_id = h.stock_id => g = h
       /\ \A p \in Procs :
             (/\ pc[p] = "line"
              /\ pc'[p] = "forecast"
              /\ req[p].from_location_type = "pulled")
             => \A r \in db.stock :
                    (/\ r.location_type = "pulled"
                     /\ \A x \in db'.stock : x.id = r.id => x.qty < r.qty)
                    => \A g \in db'.staging_tags : g.stock_id # r.id]_vars

\* C25: every line of a batch that goes through appends one log entry with
\* the line's part and qty, the request's locations and the supplier resolved
\* for the line; the commit of a batch of n lines leaves n new entries in line
\* order, takes the summed qty of each part's lines out of its source total and
\* adds it to its destination total; the response reports n items and the sum
\* of the lines' qty.
BatchLoggedLineByLine ==
    [][\A p \in Procs :
          LET r == req[p]
              n == Len(r.items)
              PartAt(d, part_id, lt, lid) ==
                  SumQty({x \in d.stock : /\ x.part_id = part_id
                                          /\ x.location_type = lt
                                          /\ x.location_id = lid})
              LinesOfPart(part_id) ==
                  SumQty({[id |-> i, qty |-> r.items[i].qty] :
                              i \in {j \in 1..n : r.items[j].part_id = part_id}})
              Records(e, item) ==
                  /\ e.part_id = item.part_id
                  /\ e.qty = item.qty
                  /\ e.from_location_type = r.from_location_type
                  /\ e.from_location_id = r.from_location_id
                  /\ e.to_location_type = r.to_location_type
                  /\ e.to_location_id = r.to_location_id
          IN  /\ (pc[p] = "line" /\ (pc'[p] = "forecast" \/ idx'[p] = idx[p] + 1))
                 => LET before == View(p)
                        after == IF pc'[p] = "forecast" THEN db' ELSE tx'
                        item == r.items[idx[p]]
                        resolved ==
                            IF lock = p
                            THEN {c[1] : c \in _resolve_supplier(before, item,
                                      r.from_location_type, r.from_location_id)}
                            ELSE {sup[p]}
                        e == after.stock_movements[Len(after.stock_movements)]
                    IN  /\ Len(after.stock_movements)
                               = Len(before.stock_movements) + 1
                        /\ \A k \in 1..Len(before.stock_movements) :
                               after.stock_movements[k] = before.stock_movements[k]
                        /\ Records(e, item)
                        /\ e.supplier_id \in resolved
              /\ (pc[p] = "line" /\ pc'[p] = "forecast")
                 => /\ Len(db'.stock_movements) = Len(db.stock_movements) + n
                    /\ \A k \in 1..n :
                           Records(db'.stock_movements[Len(db.stock_movements) + k],
                                   r.items[k])
                    /\ \A part_id \in {r.items[k].part_id : k \in 1..n} :
                           /\ PartAt(db, part_id, r.from_location_type,
                                     r.from_location_id)
                                  - PartAt(db', part_id, r.from_location_type,
                                           r.from_location_id)
                                  = LinesOfPart(part_id)
                           /\ PartAt(db', part_id, r.to_location_type,
                                     r.to_location_id)
                                  - PartAt(db, part_id, r.to_location_type,
                                           r.to_location_id)
                                  = LinesOfPart(part_id)
              /\ (pc[p] # "done" /\ pc'[p] = "done")
                 => /\ resp'[p].success
                    /\ resp'[p].total_items = n
                    /\ resp'[p].total_qty = TotalQty(r.items)]_vars

\* C26: the commit of a batch leaves the total quantity of every part from
\* every supplier (no supplier counting as one), summed over all locations,
\* unchanged: the units a line takes come from rows of the supplier it credits.
SupplierFollowsStock ==
    [][\A p \in Procs :
          (pc[p] = "line" /\ pc'[p] = "forecast")
          => \A part_id \in PartIds, supplier_id \in Suppliers \cup {NULL} :
                 LET Of(d) == SumQty({x \in d.stock : /\ x.part_id = part_id
                                                      /\ x.supplier_id = supplier_id})
                 IN  Of(db') = Of(db)]_vars

\* C27: for every part, the quantity on hand over all stock rows is the summed
\* qty of its receive entries, plus that of its adjust entries with a
\* destination, minus that of its adjust entries with a source.
LedgerBalances ==
    \A part_id \in PartIds :
        LET log == db.stock_movements
            Logged(keep(_)) ==
                SumQty({[id |-> i, qty |-> log[i].qty] :
                            i \in {j \in 1..Len(log) :
                                      log[j].part_id = part_id /\ keep(log[j])}})
            Received(e) == e.movement_type = "receive"
            Found(e) == e.movement_type = "adjust" /\ e.to_location_type # ""
            Missing(e) == e.movement_type = "adjust" /\ e.from_location_type # ""
        IN  SumQty({r \in db.stock : r.part_id = part_id})
                = Logged(Received) + Logged(Found) - Logged(Missing)

\* C28: a batch that validate_movement accepted, executed with no other
\* operation on the ledger in between, commits: none of its lines raises.
ValidatedBatchCommits ==
    [][\A p \in Procs : pc[p] = "line" => pc'[p] # "raised"]_vars

\* C29: at any time at most one open (in_progress or paused) spot check
\* references a given part.
OneOpenSpotCheckPerPart ==
    \A part_id \in PartIds :
        Cardinality({a \in 1..Len(db.audits) :
                        /\ db.audits[a].audit_type = "spot_check"
                        /\ db.audits[a].status \in {"in_progress", "paused"}
                        /\ \E i \in ItemIds(db, a) :
                               db.audit_items[i].part_id = part_id}) <= 1

\* C30: an apply_adjustments call that directly follows a completed
\* apply_adjustments call on the same audit changes the quantity of no stock
\* row, adds and removes no row, and appends no log entry.
AdjustmentsAppliedOnce ==
    [][(/\ calls' = calls + 1
        /\ last.op = "apply_adjustments"
        /\ last.ok
        /\ last'.op = "apply_adjustments"
        /\ last'.audit_id = last.audit_id)
       => /\ {<<r.id, r.qty>> : r \in db'.stock} = {<<r.id, r.qty>> : r \in db.stock}
          /\ db'.stock_movements = db.stock_movements]_vars

====
